---- MODULE Spec2Model ----
(***************************************************************************)
(* Model of the probe analysis core: the specificity scorer                *)
(* (scripts/probe_scoring.py, class ProbeScorer), its batch scheduler      *)
(* (calculate_all_scores) and the region mapper (scripts/probe_mapping.py, *)
(* class ProbeMapper).                                                     *)
(*                                                                         *)
(* Numbers.  Python floats are modelled as exact rationals:                *)
(*   - pident is carried in tenths of a percent (1000 = "100.0");          *)
(*   - raw_non_specificity is the rational num/den, den = 1000 * L;        *)
(*   - the 'score' field of a record is in hundredths (5000 = 50.0), the   *)
(*     'raw_non_specificity' field in ten-thousandths (10000 = 1.0);       *)
(*   - round(x, n) is round-half-even on the rational; the lines of the    *)
(*     model are chosen so that no rounding is an exact decimal tie, where *)
(*     the float result depends on the binary representation.              *)
(* Identifiers.  Probe ids of the scorer are 1..MaxProbes, chromosome ids  *)
(* are naturals ordered as their names are ordered by sorted(); the ids of *)
(* the mapper are sequences of one-character strings.                      *)
(***************************************************************************)
EXTENDS Integers, Sequences, FiniteSets, TLC

\* ------------------------------------------------------------------ bounds
MaxProbes == 3
MaxHits == 2
MaxChunk == 2
MaxWorkers == 2
MaxMapProbes == 2
MaxPav == 2
MaxCovIds == 3
MaxSources == 2
MaxFiles == 2

\* ------------------------------------------------------- program constants
\* `if len(parts) < 12: continue`
MinColumns == 12
\* pident == 100.0, in tenths of a percent
FullIdentity == 1000
\* `final_score = min(final_score, 30.0)`
MissingCap == 30
\* `final_score = 100.0 * raw_specificity_score`
ScoreScale == 100

\* ------------------------------------------------------------ value domains
ProbeIds == 1..MaxProbes
\* len(probe_seq) of a sequence of the universe; 0 is a header without residues
SeqLens == {0, 3, 20}

\* A text column that int()/float() parses to v, and one it rejects.
Num(v) == [num |-> TRUE, v |-> v]
Junk == [num |-> FALSE, v |-> 0]

\* One alignment line: ncols tab-separated columns, of which the scorer reads
\* parts[1] (chrom), parts[2] (pident), parts[3] (length), parts[4] (mismatch).
Line(q, c, p, l, m, n) ==
    [qid |-> q, chrom |-> c, pident |-> p, length |-> l, mismatch |-> m, ncols |-> n]

\* The lines the scorer is exercised on, for probe q.
HitLines(q) ==
    { Line(q, 1, Num(1000), Num(20), Num(0), 12),   \* perfect match, 20 bases
      Line(q, 2, Num(1000), Num(3), Num(1), 12),    \* 100.0 with a mismatch
      Line(q, 2, Num(500), Num(10), Num(5), 12),    \* 50.0 over 10 bases
      Line(q, 1, Num(975), Num(18), Num(0), 13),    \* 97.5 over 18 bases
      Line(q, 3, Num(0), Num(0), Num(0), 12),        \* contributes nothing
      Line(q, 3, Num(1000), Num(20), Num(0), 3),    \* too few columns
      Line(q, 3, Junk, Num(20), Num(0), 12),         \* pident not a float
      Line(q, 3, Num(500), Junk, Num(0), 12),       \* length not an int
      Line(q, 3, Num(1000), Num(20), Junk, 12),     \* mismatch not an int, pident 100
      Line(q, 3, Num(500), Num(10), Junk, 12) }     \* mismatch not an int, pident 50

\* All sequences over S of length at most n.
SeqsUpTo(S, n) == UNION { [1..k -> S] : k \in 0..n }

\* ------------------------------------------------------------------- state
VARIABLES
    probes,           \* ProbeScorer.probes: probe id -> len(sequence)
    blast_results,    \* ProbeScorer.blast_results: <<[id, hits]>> in insertion order
    scores,           \* ProbeScorer.scores
    pc,               \* position of calculate_all_scores
    chunk_size,       \* config.Params.CHUNK_SIZE
    max_workers,      \* config.Params.MAX_WORKERS
    batches,          \* the chunks, in submission order
    future,           \* state of each submitted future
    processed_count,  \* the progress counter
    progress,         \* the processed_count values printed so far
    arg_batch,        \* argument probe_ids_hits of a direct batch call
    ret,              \* what that call returned
    ret_prev,         \* what the previous call on the same probe returned
    high_quality_probes, \* ProbeMapper.high_quality_probes keys, in order
    pav_sequences,    \* ProbeMapper.pav_sequences keys, in order
    mapping_results,  \* ProbeMapper.mapping_results: pav id -> probe ids
    unmapped_probes,  \* the unmapped list of map_probes_to_pav
    map_pc,           \* position of map_probes_to_pav
    arrival,          \* probe ids of self.scores in the order they were appended
    probes_file,      \* the FASTA file config.InputFiles.PROBES_FILE names
    blast_files,      \* the files config.InputFiles.BLAST_FILES names, in order
    cov_probes,       \* CoverageAnalyzer.probes: the keys
    cov_blast_results,\* CoverageAnalyzer.blast_results: per file, the keys
    stats,            \* CoverageAnalyzer.stats
    cov_pc,           \* position of analyze_coverage
    ret_seq,          \* what calculate_probes_batch returned for arg_batch
    threshold,        \* the threshold argument of extract_high_quality_probes
    extracted         \* what extract_high_quality_probes selected

vars == << probes, blast_results, scores, pc, chunk_size, max_workers, batches,
           future, processed_count, progress, arg_batch, ret, ret_prev,
           high_quality_probes, pav_sequences, mapping_results,
           unmapped_probes, map_pc, arrival, probes_file, blast_files,
           cov_probes, cov_blast_results, stats, cov_pc, ret_seq, threshold,
           extracted >>

schedVars == << blast_results, scores, pc, chunk_size, max_workers, batches,
                future, processed_count, progress, arrival >>
callVars == << arg_batch, ret, ret_prev, ret_seq >>
mapVars == << high_quality_probes, pav_sequences, mapping_results,
              unmapped_probes, map_pc >>
fileVars == << probes_file, blast_files >>
covVars == << cov_probes, cov_blast_results, stats, cov_pc >>
extVars == << threshold, extracted >>

\* --------------------------------------------------------- scoring engine
\* round(n/d, k) with n >= 0, d > 0, the result in units of 10^-k when n/d is.
RoundHalfEven(n, d) ==
    LET q == n \div d
        r == n % d
    IN  IF 2 * r < d THEN q
        ELSE IF 2 * r > d THEN q + 1
        ELSE IF q % 2 = 0 THEN q ELSE q + 1

\* The accumulators before the loop over hits; raw_non_specificity = num/den.
ScoreStart(probe_length) ==
    [num |-> 0,
     den |-> IF probe_length > 0 THEN FullIdentity * probe_length ELSE 1,
     total_hits |-> 0, perfect_matches |-> 0, matched_chromosomes |-> {}]

\* ScoreHit with nident_i = length (the pident factor forgotten).
MutScoreHitNoIdentity(acc, hit, probe_length) ==
    IF hit.ncols < MinColumns THEN acc
    ELSE
      LET a1 == [acc EXCEPT !.matched_chromosomes = @ \cup {hit.chrom}]
      IN  IF ~hit.pident.num THEN a1
          ELSE IF ~hit.length.num THEN a1
          ELSE
            LET a2 == IF probe_length > 0
                      THEN [a1 EXCEPT !.num = @ + FullIdentity * hit.length.v]
                      ELSE a1
            IN  IF hit.pident.v = FullIdentity
                THEN IF ~hit.mismatch.num THEN a2
                     ELSE IF hit.mismatch.v = 0
                          THEN [a2 EXCEPT !.perfect_matches = @ + 1,
                                          !.total_hits = @ + 1]
                          ELSE [a2 EXCEPT !.total_hits = @ + 1]
                ELSE [a2 EXCEPT !.total_hits = @ + 1]

\* ScoreHit with `raw_non_specificity = ...` in place of `+=`.
MutScoreHitAssign(acc, hit, probe_length) ==
    IF hit.ncols < MinColumns THEN acc
    ELSE
      LET a1 == [acc EXCEPT !.matched_chromosomes = @ \cup {hit.chrom}]
      IN  IF ~hit.pident.num THEN a1
          ELSE IF ~hit.length.num THEN a1
          ELSE
            LET a2 == IF probe_length > 0
                      THEN [a1 EXCEPT !.num = hit.pident.v * hit.length.v]
                      ELSE a1
            IN  IF hit.pident.v = FullIdentity
                THEN IF ~hit.mismatch.num THEN a2
                     ELSE IF hit.mismatch.v = 0
                          THEN [a2 EXCEPT !.perfect_matches = @ + 1,
                                          !.total_hits = @ + 1]
                          ELSE [a2 EXCEPT !.total_hits = @ + 1]
                ELSE [a2 EXCEPT !.total_hits = @ + 1]

\* ScoreHit counting a perfect match on `pident == 100.0` alone.
MutScoreHitPerfectIgnoresMismatch(acc, hit, probe_length) ==
    IF hit.ncols < MinColumns THEN acc
    ELSE
      LET a1 == [acc EXCEPT !.matched_chromosomes = @ \cup {hit.chrom}]
      IN  IF ~hit.pident.num THEN a1
          ELSE IF ~hit.length.num THEN a1
          ELSE
            LET a2 == IF probe_length > 0
                      THEN [a1 EXCEPT !.num = @ + hit.pident.v * hit.length.v]
                      ELSE a1
            IN  IF hit.pident.v = FullIdentity
                THEN IF ~hit.mismatch.num THEN a2
                     ELSE [a2 EXCEPT !.perfect_matches = @ + 1,
                                     !.total_hits = @ + 1]
                ELSE [a2 EXCEPT !.total_hits = @ + 1]

\* One iteration of `for hit in hits` of static_calculate_probes_batch.
ScoreHit(acc, hit, probe_length) ==
    IF hit.ncols < MinColumns THEN acc
    ELSE
      LET a1 == [acc EXCEPT !.matched_chromosomes = @ \cup {hit.chrom}]
      IN  IF ~hit.pident.num THEN a1                \* float(parts[2]) raises
          ELSE IF ~hit.length.num THEN a1           \* int(parts[3]) raises
          ELSE
            LET a2 == IF probe_length > 0
                      THEN [a1 EXCEPT !.num = @ + hit.pident.v * hit.length.v]
                      ELSE a1
            IN  IF hit.pident.v = FullIdentity
                THEN IF ~hit.mismatch.num THEN a2   \* int(parts[4]) raises
                     ELSE IF hit.mismatch.v = 0
                          THEN [a2 EXCEPT !.perfect_matches = @ + 1,
                                          !.total_hits = @ + 1]
                          ELSE [a2 EXCEPT !.total_hits = @ + 1]
                ELSE [a2 EXCEPT !.total_hits = @ + 1]

RECURSIVE ScoreLoop(_, _, _, _)
ScoreLoop(acc, hits, i, probe_length) ==
    IF i > Len(hits) THEN acc
    ELSE ScoreLoop(ScoreHit(acc, hits[i], probe_length), hits, i + 1, probe_length)

\* sorted(matched_chromosomes), the list that ','.join renders.
RECURSIVE SortedSeq(_)
SortedSeq(S) ==
    IF S = {} THEN << >>
    ELSE LET m == CHOOSE x \in S : \A y \in S : x <= y
         IN  << m >> \o SortedSeq(S \ {m})

\* FinalScore without `if total_hits == 0: final_score = 100.0`.
MutFinalScoreNoZeroHitOverride(acc, probe_length) ==
    LET formula == [n |-> ScoreScale * acc.den, d |-> acc.den + acc.num]
    IN  IF probe_length = 0 /\ formula.n > MissingCap * formula.d
        THEN [n |-> MissingCap, d |-> 1]
        ELSE formula

\* FinalScore without `if not probe_seq: final_score = min(final_score, 30.0)`.
MutFinalScoreNoCap(acc, probe_length) ==
    LET formula == [n |-> ScoreScale * acc.den, d |-> acc.den + acc.num]
    IN  IF acc.total_hits = 0 THEN [n |-> ScoreScale, d |-> 1] ELSE formula

\* FinalScore with 100 * (1 + raw) in place of 100 * 1 / (1 + raw).
MutFinalScoreNoReciprocal(acc, probe_length) ==
    LET formula == [n |-> ScoreScale * (acc.den + acc.num), d |-> acc.den]
        nohits == IF acc.total_hits = 0 THEN [n |-> ScoreScale, d |-> 1] ELSE formula
    IN  IF probe_length = 0 /\ nohits.n > MissingCap * nohits.d
        THEN [n |-> MissingCap, d |-> 1]
        ELSE nohits

\* final_score as the rational n/d, after the two special cases.
FinalScore(acc, probe_length) ==
    LET formula == [n |-> ScoreScale * acc.den, d |-> acc.den + acc.num]
        nohits == IF acc.total_hits = 0 THEN [n |-> ScoreScale, d |-> 1] ELSE formula
    IN  IF probe_length = 0 /\ nohits.n > MissingCap * nohits.d
        THEN [n |-> MissingCap, d |-> 1]
        ELSE nohits

\* The body of the per-probe try block: the record appended for one probe, or
\* "raised" when 1.0 / (1.0 + raw_non_specificity) divides by zero.
ScoreProbe(universe, probe_id, hits) ==
    LET in_fasta == probe_id \in DOMAIN universe
        probe_length == IF in_fasta THEN universe[probe_id] ELSE 0
        acc == ScoreLoop(ScoreStart(probe_length), hits, 1, probe_length)
        fs == FinalScore(acc, probe_length)
    IN  IF acc.den + acc.num = 0 THEN [raised |-> TRUE]
        ELSE [raised |-> FALSE,
              probe_id |-> probe_id,
              score |-> RoundHalfEven(100 * fs.n, fs.d),
              raw_non_specificity |-> RoundHalfEven(10000 * acc.num, acc.den),
              perfect_matches |-> acc.perfect_matches,
              total_hits |-> acc.total_hits,
              matched_chromosomes |-> SortedSeq(acc.matched_chromosomes),
              probe_length |-> probe_length,
              in_fasta |-> in_fasta]

\* static_calculate_probes_batch(probes, probe_ids_hits): a probe whose
\* computation raises is skipped.
RECURSIVE StaticBatchFrom(_, _, _)
StaticBatchFrom(universe, probe_ids_hits, i) ==
    IF i > Len(probe_ids_hits) THEN << >>
    ELSE LET r == ScoreProbe(universe, probe_ids_hits[i].id, probe_ids_hits[i].hits)
         IN  (IF r.raised THEN << >> ELSE << r >>)
             \o StaticBatchFrom(universe, probe_ids_hits, i + 1)

static_calculate_probes_batch(universe, probe_ids_hits) ==
    StaticBatchFrom(universe, probe_ids_hits, 1)

\* ------------------------------------------------- the sequential scorer
\* calculate_probe_score and calculate_probes_batch, the instance methods that
\* score without the pool.

\* The hit loop collecting the target id only of the hits it counts.
MutSeqScoreHitChromOfCounted(acc, hit, probe_length) ==
    IF hit.ncols < MinColumns THEN acc
    ELSE IF ~hit.pident.num \/ ~hit.length.num THEN acc
    ELSE
      LET a2 == IF probe_length > 0
                THEN [acc EXCEPT !.num = @ + hit.pident.v * hit.length.v]
                ELSE acc
          a3 == [a2 EXCEPT !.matched_chromosomes = @ \cup {hit.chrom},
                           !.total_hits = @ + 1]
      IN  IF hit.pident.v = FullIdentity
          THEN IF ~hit.mismatch.num THEN a2
               ELSE IF hit.mismatch.v = 0
                    THEN [a3 EXCEPT !.perfect_matches = @ + 1]
                    ELSE a3
          ELSE a3

\* One iteration of `for hit in hits` of calculate_probe_score: the target id
\* is added before the try block, the numbers are parsed inside it.
SeqScoreHit(acc, hit, probe_length) ==
    IF hit.ncols < MinColumns THEN acc
    ELSE
      LET a1 == [acc EXCEPT !.matched_chromosomes = @ \cup {hit.chrom}]
          a2 == IF probe_length > 0
                THEN [a1 EXCEPT !.num = @ + hit.pident.v * hit.length.v]
                ELSE a1
      IN  IF ~hit.pident.num \/ ~hit.length.num THEN a1
          ELSE IF hit.pident.v # FullIdentity
               THEN [a2 EXCEPT !.total_hits = @ + 1]
               ELSE IF ~hit.mismatch.num THEN a2
                    ELSE IF hit.mismatch.v = 0
                         THEN [a2 EXCEPT !.perfect_matches = @ + 1,
                                         !.total_hits = @ + 1]
                         ELSE [a2 EXCEPT !.total_hits = @ + 1]

RECURSIVE SeqScoreLoop(_, _, _, _)
SeqScoreLoop(acc, hits, i, probe_length) ==
    IF i > Len(hits) THEN acc
    ELSE SeqScoreLoop(SeqScoreHit(acc, hits[i], probe_length), hits, i + 1,
                      probe_length)

\* final_score of calculate_probe_score as a fraction n / d: 100 / (1 + raw),
\* 100 without hits, at most 30 without a sequence.
SeqFinalScore(acc, probe_length) ==
    LET final_score == IF acc.total_hits = 0
                       THEN [n |-> ScoreScale, d |-> 1]
                       ELSE [n |-> ScoreScale * acc.den, d |-> acc.den + acc.num]
    IN  IF probe_length = 0 /\ final_score.n > MissingCap * final_score.d
        THEN [n |-> MissingCap, d |-> 1]
        ELSE final_score

\* calculate_probe_score(probe_id, hits): the record, or "raised" for the None
\* that the except branch returns.
calculate_probe_score(universe, probe_id, hits) ==
    LET in_fasta == probe_id \in DOMAIN universe
        probe_length == IF in_fasta THEN universe[probe_id] ELSE 0
        acc == SeqScoreLoop(ScoreStart(probe_length), hits, 1, probe_length)
        final_score == SeqFinalScore(acc, probe_length)
    IN  IF acc.den + acc.num = 0 THEN [raised |-> TRUE]
        ELSE [raised |-> FALSE,
              probe_id |-> probe_id,
              score |-> RoundHalfEven(100 * final_score.n, final_score.d),
              raw_non_specificity |-> RoundHalfEven(10000 * acc.num, acc.den),
              perfect_matches |-> acc.perfect_matches,
              total_hits |-> acc.total_hits,
              matched_chromosomes |-> SortedSeq(acc.matched_chromosomes),
              probe_length |-> probe_length,
              in_fasta |-> in_fasta]

\* calculate_probes_batch(probe_ids_hits): `if result:` skips the None.
RECURSIVE calculate_probes_batch(_, _, _)
calculate_probes_batch(universe, probe_ids_hits, i) ==
    IF i > Len(probe_ids_hits) THEN << >>
    ELSE LET result == calculate_probe_score(universe, probe_ids_hits[i].id,
                                             probe_ids_hits[i].hits)
         IN  (IF result.raised THEN << >> ELSE << result >>)
             \o calculate_probes_batch(universe, probe_ids_hits, i + 1)

\* ------------------------------------------------- idle values of the parts
\* A universe over the probe ids S: some of them have a sequence.
Universes(S) == UNION { [U -> SeqLens] : U \in SUBSET S }

NoCall == [done |-> FALSE, out |-> << >>]

SchedIdle ==
    /\ blast_results = << >>
    /\ scores = << >>
    /\ pc = "idle"
    /\ chunk_size = 1
    /\ max_workers = 1
    /\ batches = << >>
    /\ future = << >>
    /\ processed_count = 0
    /\ progress = << >>
    /\ arrival = << >>

CallIdle ==
    /\ arg_batch = << >>
    /\ ret = NoCall
    /\ ret_prev = NoCall
    /\ ret_seq = NoCall

MapIdle ==
    /\ high_quality_probes = << >>
    /\ pav_sequences = << >>
    /\ mapping_results = << >>
    /\ unmapped_probes = << >>
    /\ map_pc = "idle"

FilesIdle ==
    /\ probes_file = [readable |-> TRUE, seqs |-> << >>]
    /\ blast_files = << >>

CovIdle ==
    /\ cov_probes = {}
    /\ cov_blast_results = << >>
    /\ stats = << >>
    /\ cov_pc = "idle"

\* threshold=None, and nothing extracted yet.
NoThreshold == [given |-> FALSE, v |-> 0]
NoExtract == [done |-> FALSE, selected |-> << >>, fallback |-> FALSE,
              score_threshold |-> 0]

ExtIdle ==
    /\ threshold = NoThreshold
    /\ extracted = NoExtract

\* ------------------------------------------- direct calls of the batch scorer
\* One (probe_id, hits) pair handed to static_calculate_probes_batch, over every
\* universe and every list of at most MaxHits lines.
InitScore ==
    /\ probes \in Universes({1})
    /\ arg_batch \in { << [id |-> 1, hits |-> h] >> : h \in SeqsUpTo(HitLines(1), MaxHits) }
    /\ ret = NoCall
    /\ ret_prev = NoCall
    /\ ret_seq = NoCall
    /\ SchedIdle
    /\ MapIdle
    /\ FilesIdle
    /\ CovIdle
    /\ ExtIdle

CallStatic ==
    /\ ~ret.done
    /\ ret' = [done |-> TRUE, out |-> static_calculate_probes_batch(probes, arg_batch)]
    /\ UNCHANGED << probes, arg_batch, ret_prev, ret_seq >>
    /\ UNCHANGED schedVars
    /\ UNCHANGED mapVars
    /\ UNCHANGED fileVars
    /\ UNCHANGED covVars
    /\ UNCHANGED extVars

\* The same probe scored again after one more line was appended to its hits.
CallStaticWithOneMoreHit ==
    /\ ret.done
    /\ Len(arg_batch[1].hits) <= MaxHits
    /\ \E h \in HitLines(arg_batch[1].id) :
         /\ arg_batch' = << [arg_batch[1] EXCEPT !.hits = Append(@, h)] >>
         /\ ret_prev' = ret
         /\ ret_seq' = NoCall
         /\ ret' = [done |-> TRUE,
                    out |-> static_calculate_probes_batch(probes, arg_batch')]
    /\ UNCHANGED probes
    /\ UNCHANGED schedVars
    /\ UNCHANGED mapVars
    /\ UNCHANGED fileVars
    /\ UNCHANGED covVars
    /\ UNCHANGED extVars

\* scorer.calculate_probes_batch(arg_batch)
CallSequential ==
    /\ ~ret_seq.done
    /\ ret_seq' = [done |-> TRUE, out |-> calculate_probes_batch(probes, arg_batch, 1)]
    /\ UNCHANGED << probes, arg_batch, ret, ret_prev >>
    /\ UNCHANGED schedVars
    /\ UNCHANGED mapVars
    /\ UNCHANGED fileVars
    /\ UNCHANGED covVars
    /\ UNCHANGED extVars

NextScore == CallStatic \/ CallStaticWithOneMoreHit \/ CallSequential

SpecScore == InitScore /\ [][NextScore]_vars

\* ------------------------------------------------------- batch scheduler
\* batches = [probe_list[i:i+chunk_size] for i in range(0, total_probes, chunk_size)]
\* with the overlapping slice probe_list[i:i+chunk_size+1].
MutBatchesOverlap(probe_list, size) ==
    LET total == Len(probe_list)
        n == (total + size - 1) \div size
    IN  [k \in 1..n |->
            SubSeq(probe_list, (k - 1) * size + 1,
                   IF k * size + 1 < total THEN k * size + 1 ELSE total)]

\* The chunks counted as total // chunk_size + 1: a store whose size is a
\* multiple of chunk_size gets an empty last chunk.
MutBatchesEmptyTail(probe_list, size) ==
    LET total == Len(probe_list)
        n == (total \div size) + 1
    IN  [k \in 1..n |->
            SubSeq(probe_list, (k - 1) * size + 1,
                   IF k * size < total THEN k * size ELSE total)]

\* batches = [probe_list[i:i+chunk_size] for i in range(0, total_probes, chunk_size)]
Batches(probe_list, size) ==
    LET total == Len(probe_list)
        n == (total + size - 1) \div size
    IN  [k \in 1..n |->
            SubSeq(probe_list, (k - 1) * size + 1,
                   IF k * size < total THEN k * size ELSE total)]

\* list.sort(key=score) without reverse=True.
RECURSIVE MutInsertAscending(_, _)
MutInsertAscending(sorted, r) ==
    IF sorted = << >> THEN << r >>
    ELSE IF Head(sorted).score <= r.score
         THEN << Head(sorted) >> \o MutInsertAscending(Tail(sorted), r)
         ELSE << r >> \o sorted

\* An unstable descending sort: r goes before the records of equal score.
RECURSIVE MutInsertBeforeEqual(_, _)
MutInsertBeforeEqual(sorted, r) ==
    IF sorted = << >> THEN << r >>
    ELSE IF Head(sorted).score > r.score
         THEN << Head(sorted) >> \o MutInsertBeforeEqual(Tail(sorted), r)
         ELSE << r >> \o sorted

\* Where a stable descending sort puts r among records that came before it:
\* behind every record whose score is not lower.
RECURSIVE InsertByScore(_, _)
InsertByScore(sorted, r) ==
    IF sorted = << >> THEN << r >>
    ELSE IF Head(sorted).score >= r.score
         THEN << Head(sorted) >> \o InsertByScore(Tail(sorted), r)
         ELSE << r >> \o sorted

\* self.scores.sort(key=lambda x: x['score'], reverse=True): stable.
RECURSIVE SortByScore(_, _)
SortByScore(records, i) ==
    IF i = 0 THEN << >>
    ELSE InsertByScore(SortByScore(records, i - 1), records[i])

\* The except branch emptying the accumulated list.
MutCollectedDropsAll(sc, fut) ==
    IF fut.exc THEN << >> ELSE sc \o fut.result

\* self.scores = batch_results in place of extend: only the chunk that
\* arrived last is kept.
MutCollectedOverwrites(sc, fut) ==
    IF fut.exc THEN sc ELSE fut.result

\* The try/except around future.result(): self.scores after one future.
Collected(sc, fut) ==
    IF fut.exc THEN sc ELSE sc \o fut.result

\* processed_count += 1, counting chunks.
MutProcessedCountsChunks(count, fut) == count + 1

\* processed_count += len(batch_results)
Processed(count, fut) == count + Len(fut.result)

\* The Hit Store entries the scheduler is run on: probe q with one of these
\* hit lists (every stored line has at least MinColumns columns).
StoreHitLists(q) ==
    { << Line(q, 1, Num(1000), Num(20), Num(0), 12) >>,
      << Line(q, 1, Num(1000), Num(20), Num(0), 12),
         Line(q, 2, Num(500), Num(10), Num(5), 12) >> }

\* Stores with keys 1..n in insertion order.
Stores(n) ==
    { [i \in 1..n |-> [id |-> i, hits |-> f[i]]] :
        f \in { g \in [1..n -> UNION { StoreHitLists(q) : q \in 1..n }] :
                  \A i \in 1..n : g[i] \in StoreHitLists(i) } }

\* The universes of the scheduler runs: any of the probe ids has a sequence of
\* 20 residues.
SchedUniverses == UNION { [U -> {20}] : U \in SUBSET ProbeIds }

InitSched ==
    /\ probes \in SchedUniverses
    /\ \E n \in 0..MaxProbes : blast_results \in Stores(n)
    /\ chunk_size \in 1..MaxChunk
    /\ max_workers \in 1..MaxWorkers
    /\ scores = << >>
    /\ pc = "start"
    /\ batches = << >>
    /\ future = << >>
    /\ processed_count = 0
    /\ progress = << >>
    /\ arrival = << >>
    /\ CallIdle
    /\ MapIdle
    /\ FilesIdle
    /\ CovIdle
    /\ ExtIdle

\* The submission taking the pairs out of the Hit Store.
MutSubmitDrainsStore ==
    /\ pc = "start"
    /\ batches' = Batches(blast_results, chunk_size)
    /\ future' = [k \in 1..Len(batches') |->
                    [state |-> "queued", exc |-> FALSE, result |-> << >>]]
    /\ scores' = << >>
    /\ processed_count' = 0
    /\ arrival' = << >>
    /\ pc' = "collect"
    /\ blast_results' = << >>
    /\ UNCHANGED << probes, chunk_size, max_workers, progress >>
    /\ UNCHANGED callVars
    /\ UNCHANGED mapVars
    /\ UNCHANGED fileVars
    /\ UNCHANGED covVars
    /\ UNCHANGED extVars

\* calculate_all_scores up to the submission of every chunk to the pool.
Submit ==
    /\ pc = "start"
    /\ batches' = Batches(blast_results, chunk_size)
    /\ future' = [k \in 1..Len(batches') |->
                    [state |-> "queued", exc |-> FALSE, result |-> << >>]]
    /\ scores' = << >>
    /\ processed_count' = 0
    /\ arrival' = << >>
    /\ pc' = "collect"
    /\ UNCHANGED << probes, blast_results, chunk_size, max_workers, progress >>
    /\ UNCHANGED callVars
    /\ UNCHANGED mapVars
    /\ UNCHANGED fileVars
    /\ UNCHANGED covVars
    /\ UNCHANGED extVars

Running == { k \in 1..Len(future) : future[k].state = "running" }

\* A pool whose workers are never freed: a worker that ran a chunk takes no
\* other.
MutWorkerStartNeverFreed(i) ==
    /\ pc = "collect"
    /\ future[i].state = "queued"
    /\ \A j \in 1..(i - 1) : future[j].state # "queued"
    /\ Cardinality({ k \in 1..Len(future) : future[k].state # "queued" }) < max_workers
    /\ future' = [future EXCEPT ![i].state = "running"]
    /\ UNCHANGED << probes, blast_results, scores, pc, chunk_size, max_workers,
                    batches, processed_count, progress, arrival >>
    /\ UNCHANGED callVars
    /\ UNCHANGED mapVars
    /\ UNCHANGED fileVars
    /\ UNCHANGED covVars
    /\ UNCHANGED extVars

\* A free worker of the pool takes the oldest queued chunk.
WorkerStart(i) ==
    /\ pc = "collect"
    /\ future[i].state = "queued"
    /\ \A j \in 1..(i - 1) : future[j].state # "queued"
    /\ Cardinality(Running) < max_workers
    /\ future' = [future EXCEPT ![i].state = "running"]
    /\ UNCHANGED << probes, blast_results, scores, pc, chunk_size, max_workers,
                    batches, processed_count, progress, arrival >>
    /\ UNCHANGED callVars
    /\ UNCHANGED mapVars
    /\ UNCHANGED fileVars
    /\ UNCHANGED covVars
    /\ UNCHANGED extVars

\* The worker returns the records of its chunk.
WorkerReturn(i) ==
    /\ pc = "collect"
    /\ future[i].state = "running"
    /\ future' = [future EXCEPT ![i] =
                    [state |-> "finished", exc |-> FALSE,
                     result |-> static_calculate_probes_batch(probes, batches[i])]]
    /\ UNCHANGED << probes, blast_results, scores, pc, chunk_size, max_workers,
                    batches, processed_count, progress, arrival >>
    /\ UNCHANGED callVars
    /\ UNCHANGED mapVars
    /\ UNCHANGED fileVars
    /\ UNCHANGED covVars
    /\ UNCHANGED extVars

\* The worker's call ends in an exception, which the future carries.
WorkerRaise(i) ==
    /\ pc = "collect"
    /\ future[i].state = "running"
    /\ future' = [future EXCEPT ![i] =
                    [state |-> "finished", exc |-> TRUE, result |-> << >>]]
    /\ UNCHANGED << probes, blast_results, scores, pc, chunk_size, max_workers,
                    batches, processed_count, progress, arrival >>
    /\ UNCHANGED callVars
    /\ UNCHANGED mapVars
    /\ UNCHANGED fileVars
    /\ UNCHANGED covVars
    /\ UNCHANGED extVars

\* as_completed yields a finished future whose result() returns.
CollectResult(i) ==
    /\ pc = "collect"
    /\ future[i].state = "finished"
    /\ ~future[i].exc
    /\ scores' = Collected(scores, future[i])
    /\ processed_count' = Processed(processed_count, future[i])
    /\ progress' = Append(progress, processed_count')
    /\ arrival' = arrival \o [j \in 1..Len(future[i].result) |-> future[i].result[j].probe_id]
    /\ future' = [future EXCEPT ![i].state = "yielded"]
    /\ UNCHANGED << probes, blast_results, pc, chunk_size, max_workers, batches >>
    /\ UNCHANGED callVars
    /\ UNCHANGED mapVars
    /\ UNCHANGED fileVars
    /\ UNCHANGED covVars
    /\ UNCHANGED extVars

\* as_completed yields a finished future whose result() raises.
CollectFailure(i) ==
    /\ pc = "collect"
    /\ future[i].state = "finished"
    /\ future[i].exc
    /\ scores' = Collected(scores, future[i])
    /\ future' = [future EXCEPT ![i].state = "yielded"]
    /\ UNCHANGED << probes, blast_results, pc, chunk_size, max_workers, batches,
                    processed_count, progress, arrival >>
    /\ UNCHANGED callVars
    /\ UNCHANGED mapVars
    /\ UNCHANGED fileVars
    /\ UNCHANGED covVars
    /\ UNCHANGED extVars

\* Every future was yielded: the pool is shut down, the list sorted and returned.
SortAndReturn ==
    /\ pc = "collect"
    /\ \A k \in 1..Len(future) : future[k].state = "yielded"
    /\ scores' = SortByScore(scores, Len(scores))
    /\ pc' = "done"
    /\ UNCHANGED << probes, blast_results, chunk_size, max_workers, batches,
                    future, processed_count, progress, arrival >>
    /\ UNCHANGED callVars
    /\ UNCHANGED mapVars
    /\ UNCHANGED fileVars
    /\ UNCHANGED covVars
    /\ UNCHANGED extVars

Next ==
    \/ Submit
    \/ \E i \in 1..Len(future) : WorkerStart(i)
    \/ \E i \in 1..Len(future) : WorkerReturn(i)
    \/ \E i \in 1..Len(future) : WorkerRaise(i)
    \/ \E i \in 1..Len(future) : CollectResult(i)
    \/ \E i \in 1..Len(future) : CollectFailure(i)
    \/ SortAndReturn

Spec == InitSched /\ [][Next]_vars

\* The runs in which every probe id has a sequence and one hit.
InitLive ==
    /\ InitSched
    /\ DOMAIN probes = ProbeIds
    /\ \A i \in 1..Len(blast_results) : Len(blast_results[i].hits) = 1

\* The run with its scheduling: the pool runs a started chunk to its end, a
\* free worker takes the next queued chunk, as_completed yields every finished
\* future and the `with` block is left once all were yielded, so a step that
\* can be taken is taken.
SpecLive == InitLive /\ [][Next]_vars /\ WF_vars(Next)

\* ----------------------------------------------------------- region mapper
\* Identifiers are sequences of characters.
Digits == {"0", "1", "2", "3", "4", "5", "6", "7", "8", "9"}

\* The probe ids the mapper is run on:
\*   1_q-1_u, 2_q-7_u     the pattern matches, candidates 1_q-1 and 2_q-7
\*   q1_u, x_y            a single underscore
\*   1_q-1x_u             the second token does not end in -<digits>
\*   1_-1_u               nothing before the hyphen of the second token
ProbeIdPool ==
    { << "1", "_", "q", "-", "1", "_", "u" >>,
      << "2", "_", "q", "-", "7", "_", "u" >>,
      << "q", "1", "_", "u" >>,
      << "x", "_", "y" >>,
      << "1", "_", "q", "-", "1", "x", "_", "u" >>,
      << "1", "_", "-", "1", "_", "u" >> }

\* The region ids: 1_q-1, 1_q, q1, 2_q-7.
PavIdPool ==
    { << "1", "_", "q", "-", "1" >>,
      << "1", "_", "q" >>,
      << "q", "1" >>,
      << "2", "_", "q", "-", "7" >> }

\* The keys of a dict: sequences without repetition, of length at most n.
KeyLists(S, n) ==
    { l \in SeqsUpTo(S, n) : \A i, j \in 1..Len(l) : i # j => l[i] # l[j] }

Range(l) == { l[i] : i \in 1..Len(l) }

\* Index of the first "_" of s at or after position from, 0 if there is none.
FirstUnderscore(s, from) ==
    LET at == { i \in from..Len(s) : s[i] = "_" }
    IN  IF at = {} THEN 0 ELSE CHOOSE i \in at : \A j \in at : i <= j

\* re.match(r'^([^_]+_[^_]+-\d+)_', probe_id): group 1, or << >> for no match.
\* The first token is what precedes the first "_"; the second is what lies
\* between the first and the second "_" and must be <1+ chars>-<1+ digits>.
PatternGroup(s) ==
    LET u1 == FirstUnderscore(s, 1)
        u2 == IF u1 > 0 THEN FirstUnderscore(s, u1 + 1) ELSE 0
    IN  IF /\ u1 > 1
           /\ u2 > 0
           /\ \E h \in (u1 + 2)..(u2 - 2) :
                 /\ s[h] = "-"
                 /\ \A k \in (h + 1)..(u2 - 1) : s[k] \in Digits
        THEN SubSeq(s, 1, u2 - 1)
        ELSE << >>

\* probe_id.startswith(key)
StartsWith(s, key) ==
    Len(key) <= Len(s) /\ SubSeq(s, 1, Len(key)) = key

\* self.mapping_results[pav_id].append(probe_id) on a defaultdict(list)
AppendTo(m, pav_id, probe_id) ==
    IF pav_id \in DOMAIN m
    THEN [m EXCEPT ![pav_id] = Append(@, probe_id)]
    ELSE [k \in DOMAIN m \cup {pav_id} |->
            IF k = pav_id THEN << probe_id >> ELSE m[k]]

\* The prefix search without its `break`.
MutMapOneNoBreak(acc, probe_id, pavs) ==
    LET g == PatternGroup(probe_id)
        hits == { i \in 1..Len(pavs) : StartsWith(probe_id, pavs[i]) }
        first == CHOOSE i \in hits : \A j \in hits : i <= j
        rest == hits \ {first}
    IN  IF g # << >>
        THEN [acc EXCEPT !.mapping = AppendTo(@, g, probe_id)]
        ELSE IF hits = {}
             THEN [acc EXCEPT !.unmapped = Append(@, probe_id)]
             ELSE IF rest = {}
                  THEN [acc EXCEPT !.mapping = AppendTo(@, pavs[first], probe_id)]
                  ELSE [acc EXCEPT !.mapping =
                          AppendTo(AppendTo(@, pavs[first], probe_id),
                                   pavs[CHOOSE i \in rest : TRUE], probe_id)]

\* The prefix search tried before the pattern.
MutMapOnePrefixFirst(acc, probe_id, pavs) ==
    LET g == PatternGroup(probe_id)
        hits == { i \in 1..Len(pavs) : StartsWith(probe_id, pavs[i]) }
    IN  IF hits # {}
        THEN [acc EXCEPT !.mapping =
                AppendTo(@, pavs[CHOOSE i \in hits : \A j \in hits : i <= j],
                         probe_id)]
        ELSE IF g # << >>
             THEN [acc EXCEPT !.mapping = AppendTo(@, g, probe_id)]
             ELSE [acc EXCEPT !.unmapped = Append(@, probe_id)]

\* The prefix search keeping the last region id that is a prefix.
MutMapOneLastPrefix(acc, probe_id, pavs) ==
    LET g == PatternGroup(probe_id)
        hits == { i \in 1..Len(pavs) : StartsWith(probe_id, pavs[i]) }
    IN  IF g # << >>
        THEN [acc EXCEPT !.mapping = AppendTo(@, g, probe_id)]
        ELSE IF hits = {}
             THEN [acc EXCEPT !.unmapped = Append(@, probe_id)]
             ELSE [acc EXCEPT !.mapping =
                     AppendTo(@, pavs[CHOOSE i \in hits : \A j \in hits : i >= j],
                              probe_id)]

\* One iteration of `for probe_id in self.high_quality_probes.keys()`.
MapOne(acc, probe_id, pavs) ==
    LET g == PatternGroup(probe_id)
        hits == { i \in 1..Len(pavs) : StartsWith(probe_id, pavs[i]) }
    IN  IF g # << >>
        THEN [acc EXCEPT !.mapping = AppendTo(@, g, probe_id)]
        ELSE IF hits = {}
             THEN [acc EXCEPT !.unmapped = Append(@, probe_id)]
             ELSE [acc EXCEPT !.mapping =
                     AppendTo(@, pavs[CHOOSE i \in hits : \A j \in hits : i <= j],
                              probe_id)]

RECURSIVE MapLoop(_, _, _, _)
MapLoop(acc, probe_ids, i, pavs) ==
    IF i > Len(probe_ids) THEN acc
    ELSE MapLoop(MapOne(acc, probe_ids[i], pavs), probe_ids, i + 1, pavs)

InitMap ==
    /\ high_quality_probes \in KeyLists(ProbeIdPool, MaxMapProbes)
    /\ pav_sequences \in KeyLists(PavIdPool, MaxPav)
    /\ mapping_results = << >>
    /\ unmapped_probes = << >>
    /\ map_pc = "ready"
    /\ probes = << >>
    /\ SchedIdle
    /\ CallIdle
    /\ FilesIdle
    /\ CovIdle
    /\ ExtIdle

\* map_probes_to_pav(): the loop, then the statistics, whose percentages divide
\* by len(self.high_quality_probes) and raise ZeroDivisionError when it is 0.
MapProbesToPav ==
    /\ map_pc = "ready"
    /\ LET out == MapLoop([mapping |-> << >>, unmapped |-> << >>],
                          high_quality_probes, 1, pav_sequences)
       IN  /\ mapping_results' = out.mapping
           /\ unmapped_probes' = out.unmapped
    /\ map_pc' = IF Len(high_quality_probes) = 0 THEN "raised" ELSE "returned"
    /\ UNCHANGED << high_quality_probes, pav_sequences, probes >>
    /\ UNCHANGED schedVars
    /\ UNCHANGED callVars
    /\ UNCHANGED fileVars
    /\ UNCHANGED covVars
    /\ UNCHANGED extVars

\* ProbeMapper.run(): without high-quality probes the mapping is skipped and
\* None returned, otherwise map_probes_to_pav() is called.
MapperRun ==
    /\ map_pc = "ready"
    /\ IF Len(high_quality_probes) = 0
       THEN /\ map_pc' = "skipped"
            /\ UNCHANGED << mapping_results, unmapped_probes >>
       ELSE LET out == MapLoop([mapping |-> << >>, unmapped |-> << >>],
                               high_quality_probes, 1, pav_sequences)
            IN  /\ mapping_results' = out.mapping
                /\ unmapped_probes' = out.unmapped
                /\ map_pc' = "returned"
    /\ UNCHANGED << high_quality_probes, pav_sequences, probes >>
    /\ UNCHANGED schedVars
    /\ UNCHANGED callVars
    /\ UNCHANGED fileVars
    /\ UNCHANGED covVars
    /\ UNCHANGED extVars

NextMap == MapProbesToPav \/ MapperRun

SpecMap == InitMap /\ [][NextMap]_vars

\* ------------------------------------------------------------ extraction
\* ProbeScorer.extract_high_quality_probes(threshold=None) on self.scores and
\* self.probes.  Thresholds are in hundredths of a point, as the scores are.

DefaultThreshold == 6000
SCORE_THRESHOLD == 8000

\* The probe ids of the records at the positions pos of sc, in list order.
RECURSIVE IdsAt(_, _, _)
IdsAt(sc, pos, i) ==
    IF i > Len(sc) THEN << >>
    ELSE (IF i \in pos THEN << sc[i].probe_id >> ELSE << >>) \o IdsAt(sc, pos, i + 1)

\* The loop `for result in self.scores` of the fallback: the record kept in
\* best_probe after position i.
RECURSIVE BestProbe(_, _)
BestProbe(sc, i) ==
    IF i = 0 THEN 0
    ELSE LET best == BestProbe(sc, i - 1)
         IN  IF sc[i].in_fasta /\ (best = 0 \/ sc[i].score > sc[best].score)
             THEN i ELSE best

\* extract_high_quality_probes: the keys of high_quality_probes in insertion
\* order, is_low_quality_fallback and the threshold that was applied.
ExtractHighQualityProbes(sc, thr) ==
    LET score_threshold == IF thr.given /\ thr.v # 0 THEN thr.v ELSE DefaultThreshold
        high == { i \in 1..Len(sc) : sc[i].score >= score_threshold /\ sc[i].in_fasta }
        best == BestProbe(sc, Len(sc))
    IN  IF high = {} /\ Len(sc) > 0 /\ (\E i \in 1..Len(sc) : sc[i].in_fasta) /\ best # 0
        THEN [done |-> TRUE, selected |-> << sc[best].probe_id >>,
              fallback |-> TRUE, score_threshold |-> score_threshold]
        ELSE [done |-> TRUE, selected |-> IdsAt(sc, high, 1),
              fallback |-> FALSE, score_threshold |-> score_threshold]

\* The threshold arguments: none, 0, 50.0 and 80.0.
ThresholdArgs ==
    { NoThreshold, [given |-> TRUE, v |-> 0], [given |-> TRUE, v |-> 5000],
      [given |-> TRUE, v |-> 8000] }

\* The scores of the records extraction is run on.
ExtScores == {3000, 5000, 6000, 8000}

\* self.scores after calculate_all_scores over the universe: records of
\* distinct probes in descending order of score; a probe without sequence was
\* capped to 30.0.
ScoreLists(universe) ==
    { [i \in 1..Len(l) |->
          [probe_id |-> l[i][1], score |-> l[i][2],
           in_fasta |-> l[i][1] \in DOMAIN universe]] :
        l \in { m \in SeqsUpTo(ProbeIds \X ExtScores, MaxProbes) :
                  /\ \A i, j \in 1..Len(m) : i # j => m[i][1] # m[j][1]
                  /\ \A i \in 1..(Len(m) - 1) : m[i][2] >= m[i + 1][2]
                  /\ \A i \in 1..Len(m) :
                        m[i][1] \notin DOMAIN universe => m[i][2] = ScoreScale * MissingCap } }

InitExtract ==
    /\ probes \in SchedUniverses
    /\ scores \in ScoreLists(probes)
    /\ threshold \in ThresholdArgs
    /\ extracted = NoExtract
    /\ blast_results = << >>
    /\ pc = "idle"
    /\ chunk_size = 1
    /\ max_workers = 1
    /\ batches = << >>
    /\ future = << >>
    /\ processed_count = 0
    /\ progress = << >>
    /\ arrival = << >>
    /\ CallIdle
    /\ MapIdle
    /\ FilesIdle
    /\ CovIdle

\* scorer.extract_high_quality_probes(threshold=threshold)
Extract ==
    /\ ~extracted.done
    /\ extracted' = ExtractHighQualityProbes(scores, threshold)
    /\ UNCHANGED threshold
    /\ UNCHANGED probes
    /\ UNCHANGED schedVars
    /\ UNCHANGED callVars
    /\ UNCHANGED mapVars
    /\ UNCHANGED fileVars
    /\ UNCHANGED covVars

NextExtract == Extract

SpecExtract == InitExtract /\ [][NextExtract]_vars

\* ------------------------------------------------------------ loading
\* ProbeScorer.run: load_probes, load_blast_results, calculate_all_scores.
\* A file is readable or not (missing, a directory, not permitted); a BLAST
\* file holds lines, a line with qid 0 standing for a blank line or a line
\* that starts with "#".

\* read_fasta_file: SeqIO fails on an unreadable file, parse_fasta_manually is
\* tried, fails too and returns the empty dict.
read_fasta_file(file) ==
    IF file.readable THEN file.seqs ELSE << >>

\* The line loop without the column-count check.
MutAddLineNoColumnCheck(results, line) ==
    IF line.qid = 0 THEN results
    ELSE IF \E k \in 1..Len(results) : results[k].id = line.qid
         THEN [k \in 1..Len(results) |->
                 IF results[k].id = line.qid
                 THEN [results[k] EXCEPT !.hits = Append(@, line)]
                 ELSE results[k]]
         ELSE Append(results, [id |-> line.qid, hits |-> << line >>])

\* One iteration of the line loop of read_blast_output.
AddLine(results, line) ==
    IF line.qid = 0 \/ line.ncols < MinColumns THEN results
    ELSE IF \E k \in 1..Len(results) : results[k].id = line.qid
         THEN [k \in 1..Len(results) |->
                 IF results[k].id = line.qid
                 THEN [results[k] EXCEPT !.hits = Append(@, line)]
                 ELSE results[k]]
         ELSE Append(results, [id |-> line.qid, hits |-> << line >>])

RECURSIVE AddLines(_, _, _)
AddLines(results, lines, i) ==
    IF i > Len(lines) THEN results
    ELSE AddLines(AddLine(results, lines[i]), lines, i + 1)

\* read_blast_output: the dict of one file, the empty dict when reading raised.
read_blast_output(file) ==
    IF file.readable THEN AddLines(<< >>, file.lines, 1) ELSE << >>

\* The merge adding only the hits the list does not hold yet.
MutExtendDedup(store, pair) ==
    IF \E k \in 1..Len(store) : store[k].id = pair.id
    THEN [k \in 1..Len(store) |->
            IF store[k].id = pair.id
            THEN LET New(h) == \A j \in 1..Len(store[k].hits) : store[k].hits[j] # h
                 IN  [store[k] EXCEPT !.hits = @ \o SelectSeq(pair.hits, New)]
            ELSE store[k]]
    ELSE Append(store, pair)

\* self.blast_results[probe_id].extend(hits) on a defaultdict(list)
Extend(store, pair) ==
    IF \E k \in 1..Len(store) : store[k].id = pair.id
    THEN [k \in 1..Len(store) |->
            IF store[k].id = pair.id
            THEN [store[k] EXCEPT !.hits = @ \o pair.hits]
            ELSE store[k]]
    ELSE Append(store, pair)

RECURSIVE ExtendAll(_, _, _)
ExtendAll(store, file_results, i) ==
    IF i > Len(file_results) THEN store
    ELSE ExtendAll(Extend(store, file_results[i]), file_results, i + 1)

\* ProbeScorer.load_blast_results over the files from position i on.
RECURSIVE load_blast_results(_, _, _)
load_blast_results(store, files, i) ==
    IF i > Len(files) THEN store
    ELSE load_blast_results(ExtendAll(store, read_blast_output(files[i]), 1),
                            files, i + 1)

\* The contents a BLAST file is given.
BlastFileContents ==
    { << >>,
      << Line(1, 1, Num(1000), Num(20), Num(0), 12),
         Line(2, 2, Num(500), Num(10), Num(5), 12),
         Line(1, 2, Num(500), Num(10), Num(5), 12),
         Line(3, 1, Num(1000), Num(20), Num(0), 12) >>,
      << Line(0, 0, Junk, Junk, Junk, 1),
         Line(2, 1, Num(1000), Num(20), Num(0), 12),
         Line(3, 3, Num(1000), Num(20), Num(0), 3),
         Line(1, 1, Num(1000), Num(20), Num(0), 12) >> }

BlastFiles ==
    { [readable |-> FALSE, lines |-> << >>] }
      \cup { [readable |-> TRUE, lines |-> c] : c \in BlastFileContents }

ProbesFiles ==
    { [readable |-> FALSE, seqs |-> << >>],
      [readable |-> TRUE, seqs |-> [q \in ProbeIds |-> 20]],
      [readable |-> TRUE, seqs |-> [q \in ProbeIds \ {1} |-> 20]] }

InitRun ==
    /\ probes_file \in ProbesFiles
    /\ blast_files \in SeqsUpTo(BlastFiles, MaxFiles)
    /\ probes = << >>
    /\ blast_results = << >>
    /\ chunk_size = MaxChunk
    /\ max_workers = MaxWorkers
    /\ scores = << >>
    /\ pc = "load_probes"
    /\ batches = << >>
    /\ future = << >>
    /\ processed_count = 0
    /\ progress = << >>
    /\ arrival = << >>
    /\ CallIdle
    /\ MapIdle
    /\ CovIdle
    /\ ExtIdle

\* ProbeScorer.load_probes()
RunLoadProbes ==
    /\ pc = "load_probes"
    /\ probes' = read_fasta_file(probes_file)
    /\ pc' = "load_blast"
    /\ UNCHANGED << blast_results, scores, chunk_size, max_workers, batches,
                    future, processed_count, progress, arrival >>
    /\ UNCHANGED callVars
    /\ UNCHANGED mapVars
    /\ UNCHANGED fileVars
    /\ UNCHANGED covVars
    /\ UNCHANGED extVars

\* ProbeScorer.load_blast_results()
RunLoadBlastResults ==
    /\ pc = "load_blast"
    /\ blast_results' = load_blast_results(<< >>, blast_files, 1)
    /\ pc' = "start"
    /\ UNCHANGED << probes, scores, chunk_size, max_workers, batches,
                    future, processed_count, progress, arrival >>
    /\ UNCHANGED callVars
    /\ UNCHANGED mapVars
    /\ UNCHANGED fileVars
    /\ UNCHANGED covVars
    /\ UNCHANGED extVars

\* ProbeScorer.run() after calculate_all_scores: the scores are saved and
\* extract_high_quality_probes() is called without a threshold.
RunExtract ==
    /\ pc = "done"
    /\ extracted' = ExtractHighQualityProbes(scores, NoThreshold)
    /\ pc' = "extracted"
    /\ UNCHANGED threshold
    /\ UNCHANGED << probes, blast_results, scores, chunk_size, max_workers,
                    batches, future, processed_count, progress, arrival >>
    /\ UNCHANGED callVars
    /\ UNCHANGED mapVars
    /\ UNCHANGED fileVars
    /\ UNCHANGED covVars

NextRun ==
    \/ RunLoadProbes
    \/ RunLoadBlastResults
    \/ Next
    \/ RunExtract

SpecRun == InitRun /\ [][NextRun]_vars

\* ------------------------------------------------------------ coverage
\* CoverageAnalyzer.analyze_coverage works on the keys of self.probes and, per
\* BLAST file in the order the files were loaded, on the keys of that file's
\* results.  A ratio x / y * 100 is kept as the fraction 100 * x over y, and
\* the literal 0 of the guarded branches as 0 over 1.

CovIds == 1..MaxCovIds

\* len(found) / len(total) * 100 if total else 0
Ratio(found, total) ==
    IF total # 0 THEN [num |-> 100 * found, den |-> total]
    ELSE [num |-> 0, den |-> 1]

\* not_found_in_fasta taken as the universe ids the file does not name.
MutFileStatNotFoundOfUniverse(file_probes, universe) ==
    LET found_in_fasta == file_probes \cap universe
    IN  [total_probes |-> Cardinality(file_probes),
         found_in_fasta |-> Cardinality(found_in_fasta),
         not_found_in_fasta |-> Cardinality(universe) - Cardinality(found_in_fasta),
         found_ratio |-> Ratio(Cardinality(found_in_fasta), Cardinality(file_probes))]

\* The file_stat of one BLAST file.
FileStat(file_probes, universe) ==
    LET found_in_fasta == file_probes \cap universe
    IN  [total_probes |-> Cardinality(file_probes),
         found_in_fasta |-> Cardinality(found_in_fasta),
         not_found_in_fasta |-> Cardinality(file_probes) - Cardinality(found_in_fasta),
         found_ratio |-> Ratio(Cardinality(found_in_fasta), Cardinality(file_probes))]

RECURSIVE SumFound(_, _)
SumFound(file_stats, i) ==
    IF i = 0 THEN 0 ELSE file_stats[i].found_in_fasta + SumFound(file_stats, i - 1)

\* probes_found_in_fasta taken as the sum of the files' found_in_fasta.
MutGlobalStatsSumsFiles(universe, sources) ==
    LET all_blast_probes == UNION { sources[i] : i \in 1..Len(sources) }
        file_stats == [i \in 1..Len(sources) |-> FileStat(sources[i], universe)]
        found == SumFound(file_stats, Len(file_stats))
    IN  [total_probes_in_fasta |-> Cardinality(universe),
         total_probes_in_blast |-> Cardinality(all_blast_probes),
         probes_found_in_fasta |-> found,
         coverage_ratio |-> Ratio(found, Cardinality(universe)),
         file_stats |-> file_stats]

\* self.stats as analyze_coverage leaves it.
GlobalStats(universe, sources) ==
    LET all_blast_probes == UNION { sources[i] : i \in 1..Len(sources) }
        file_stats == [i \in 1..Len(sources) |-> FileStat(sources[i], universe)]
        found == Cardinality(all_blast_probes \cap universe)
    IN  [total_probes_in_fasta |-> Cardinality(universe),
         total_probes_in_blast |-> Cardinality(all_blast_probes),
         probes_found_in_fasta |-> found,
         coverage_ratio |-> Ratio(found, Cardinality(universe)),
         file_stats |-> file_stats]

InitCov ==
    /\ cov_probes \in SUBSET CovIds
    /\ cov_blast_results \in SeqsUpTo(SUBSET CovIds, MaxSources)
    /\ stats = << >>
    /\ cov_pc = "ready"
    /\ probes = << >>
    /\ SchedIdle
    /\ CallIdle
    /\ MapIdle
    /\ FilesIdle
    /\ ExtIdle

\* analyze_coverage()
AnalyzeCoverage ==
    /\ cov_pc = "ready"
    /\ stats' = GlobalStats(cov_probes, cov_blast_results)
    /\ cov_pc' = "returned"
    /\ UNCHANGED << cov_probes, cov_blast_results, probes >>
    /\ UNCHANGED schedVars
    /\ UNCHANGED callVars
    /\ UNCHANGED mapVars
    /\ UNCHANGED fileVars
    /\ UNCHANGED extVars

NextCov == AnalyzeCoverage

SpecCov == InitCov /\ [][NextCov]_vars

\* ==================================================================== claims
\* What the direct call was made on, and the single record it returned.
CallProbe == arg_batch[1].id
CallHits == arg_batch[1].hits
CallInUniverse == CallProbe \in DOMAIN probes
CallLength == IF CallInUniverse THEN probes[CallProbe] ELSE 0
Returned == ret.done /\ Len(ret.out) = 1
Rec == ret.out[1]

\* C1 (as stated): whenever the record has total_hit_count = 0, whether or not
\* the probe is in the universe, its score is 100.0.
C1_ZeroHitsScore100 ==
    ret.done => \A i \in 1..Len(ret.out) :
        ret.out[i].total_hits = 0 => ret.out[i].score = 10000

\* C1 (amended): a record with total_hit_count = 0 has score 100.0 when the
\* probe has a non-empty sequence in the universe, and 30.0 (the cap) when the
\* sequence is missing or empty.
C1_ZeroHitsScore ==
    ret.done => \A i \in 1..Len(ret.out) :
        ret.out[i].total_hits = 0 =>
            /\ ret.out[i].probe_length > 0 => ret.out[i].score = 10000
            /\ ret.out[i].probe_length = 0 => ret.out[i].score = 3000

\* A probe of the universe whose hits were all dropped, one of them after it
\* had already been added to raw_non_specificity.
C1_Witness ==
    /\ Returned
    /\ Len(CallHits) > 0
    /\ Rec.total_hits = 0
    /\ Rec.probe_length > 0
    /\ Rec.raw_non_specificity > 0
    /\ Rec.score = 10000

\* C2: a probe id that is no key of the universe is scored with probe_length 0
\* without raising: one record comes back, in_sequence_universe is false and
\* the score is at most 30.0.
C2_MissingSequenceCapped ==
    (ret.done /\ ~CallInUniverse) =>
        /\ Len(ret.out) = 1
        /\ Rec.probe_id = CallProbe
        /\ Rec.in_fasta = FALSE
        /\ Rec.probe_length = 0
        /\ Rec.score <= 3000

\* A missing probe with retained hits, one of them a perfect match.
C2_Witness ==
    /\ Returned
    /\ ~CallInUniverse
    /\ Rec.total_hits >= 2
    /\ Rec.perfect_matches >= 1
    /\ Rec.score = 3000

\* C3: every record has 0 <= score <= 100 (every line of the model has pident
\* in 0..100 and a length >= 0).
C3_ScoreInRange ==
    ret.done => \A i \in 1..Len(ret.out) :
        ret.out[i].score >= 0 /\ ret.out[i].score <= 10000

\* A record strictly inside the range, from several retained hits.
C3_Witness ==
    /\ Returned
    /\ Rec.total_hits >= 2
    /\ Rec.score > 0
    /\ Rec.score < 3000

\* Sum over the hits of pident * length, in tenths of a percent times bases.
RECURSIVE SumIdentity(_, _)
SumIdentity(hits, i) ==
    IF i > Len(hits) THEN 0
    ELSE hits[i].pident.v * hits[i].length.v + SumIdentity(hits, i + 1)

WellFormed(h) ==
    h.ncols >= 12 /\ h.pident.num /\ h.length.num /\ h.mismatch.num

\* C4: for a probe of length L > 0 and well-formed hits, raw_non_specificity is
\* the decimal with 4 places nearest to sum(pident/100 * length) / L and score
\* the decimal with 2 places nearest to 100 / (1 + that sum); L = 20 with one
\* hit pident 100, length 20, mismatches 0 gives 1.0 and 50.0.
C4_Formula ==
    (ret.done /\ CallLength > 0 /\ \A i \in 1..Len(CallHits) : WellFormed(CallHits[i])) =>
        LET N == SumIdentity(CallHits, 1)
            L == CallLength
        IN  /\ Len(ret.out) = 1
            /\ Rec.total_hits = Len(CallHits)
            /\ 2 * (Rec.raw_non_specificity * L - 10 * N) <= L
            /\ 2 * (10 * N - Rec.raw_non_specificity * L) <= L
            /\ 2 * (Rec.score * (1000 * L + N) - 10000000 * L) <= 1000 * L + N
            /\ 2 * (10000000 * L - Rec.score * (1000 * L + N)) <= 1000 * L + N
            /\ (L = 20 /\ CallHits = << Line(CallProbe, 1, Num(1000), Num(20), Num(0), 12) >>)
                 => /\ Rec.raw_non_specificity = 10000
                    /\ Rec.score = 5000
                    /\ Rec.perfect_matches = 1

\* The scenario P1 of the specification.
C4_Witness ==
    /\ Returned
    /\ CallLength = 20
    /\ CallHits = << Line(CallProbe, 1, Num(1000), Num(20), Num(0), 12) >>
    /\ Rec.score = 5000

\* A second case, where both roundings are inexact.
C4_WitnessRounded ==
    /\ Returned
    /\ CallLength = 3
    /\ Len(CallHits) = 2
    /\ \A i \in 1..2 : WellFormed(CallHits[i])
    /\ Rec.raw_non_specificity * 3 # 10 * SumIdentity(CallHits, 1)

\* C5: for a probe of length > 0, scoring the hit list with one more retained
\* hit appended never gives a higher score than before.
C5_AppendNeverRaisesScore ==
    [][ ( /\ ret.done /\ ret'.done
          /\ CallLength > 0
          /\ Len(ret.out) = 1 /\ Len(ret'.out) = 1
          /\ ret'.out[1].total_hits = ret.out[1].total_hits + 1 )
        => ret'.out[1].score <= ret.out[1].score ]_vars

\* The probe was scored, a retained hit was appended and the score went down.
C5_Witness ==
    /\ ret_prev.done /\ Returned
    /\ CallLength > 0
    /\ Len(ret_prev.out) = 1
    /\ ret_prev.out[1].total_hits >= 1
    /\ Rec.total_hits = ret_prev.out[1].total_hits + 1
    /\ Rec.score < ret_prev.out[1].score

\* The chunk (1-based) that position p of the Hit Store falls in.
ChunkOf(p) == ((p - 1) \div chunk_size) + 1
StorePositions == 1..Len(blast_results)
FailedChunks == { k \in 1..Len(future) : future[k].exc }
ScoredIds == { scores[i].probe_id : i \in 1..Len(scores) }
IsSortedDescending(records) ==
    \A i, j \in 1..Len(records) : i < j => records[i].score >= records[j].score

\* C6: when calculate_all_scores has returned, the result list is non-increasing
\* in score, for every chunk size, worker count and completion order.
C6_ResultSortedDescending ==
    pc = "done" => IsSortedDescending(scores)

\* Three records of three different scores, returned in an order that is not
\* the order of the Hit Store.
C6_Witness ==
    /\ pc = "done"
    /\ Len(scores) = 3
    /\ scores[1].score > scores[2].score
    /\ scores[2].score > scores[3].score
    /\ scores[1].probe_id > scores[2].probe_id

\* C7: when calculate_all_scores has returned, there are as many records as the
\* Hit Store has probes in chunks that did not fail, and each such probe id is
\* the probe_id of exactly one record.
C7_OneRecordPerSurvivingProbe ==
    pc = "done" =>
        LET surviving == { p \in StorePositions : ChunkOf(p) \notin FailedChunks }
        IN  /\ Len(scores) = Cardinality(surviving)
            /\ \A p \in surviving :
                 Cardinality({ i \in 1..Len(scores) :
                                 scores[i].probe_id = blast_results[p].id }) = 1

\* A run with chunks of two probes, one chunk failed and one delivered.
C7_Witness ==
    /\ pc = "done"
    /\ chunk_size = 2
    /\ Len(blast_results) = 3
    /\ Cardinality(FailedChunks) = 1
    /\ Len(scores) >= 1

\* C8: a chunk whose worker raised does not abort the run: records already
\* gathered stay, and in the returned list the probes of the failed chunks, and
\* only they, are absent, and the list is sorted.
C8_FailedChunkOnlyOmitted ==
    /\ \A k \in 1..Len(future) :
         (pc = "collect" /\ future[k].state = "yielded" /\ ~future[k].exc) =>
             \A j \in 1..Len(batches[k]) : batches[k][j].id \in ScoredIds
    /\ (pc = "done" /\ FailedChunks # {}) =>
         /\ \A p \in StorePositions :
              (blast_results[p].id \in ScoredIds) <=> (ChunkOf(p) \notin FailedChunks)
         /\ IsSortedDescending(scores)

\* The run returned although the first chunk failed after another was gathered.
C8_Witness ==
    /\ pc = "done"
    /\ Len(future) = 3
    /\ FailedChunks = {1}
    /\ Len(scores) = 2
    /\ scores[1].score > scores[2].score

\* How often probe id p occurs in the grouping and in the unmapped list.
Occurrences(l, p) == Cardinality({ i \in 1..Len(l) : l[i] = p })
RECURSIVE GroupedCount(_, _, _)
GroupedCount(m, keys, p) ==
    IF keys = {} THEN 0
    ELSE LET k == CHOOSE x \in keys : TRUE
         IN  Occurrences(m[k], p) + GroupedCount(m, keys \ {k}, p)

\* C9: after map_probes_to_pav every input probe id occurs exactly once in the
\* grouping and the unmapped list taken together: in one group or in the
\* unmapped list, never in both, in neither, or in two groups.
C9_ExactlyOnePlace ==
    map_pc = "returned" =>
        \A i \in 1..Len(high_quality_probes) :
            GroupedCount(mapping_results, DOMAIN mapping_results, high_quality_probes[i])
              + Occurrences(unmapped_probes, high_quality_probes[i]) = 1

\* A probe resolved by the prefix search although two region ids are prefixes
\* of it, next to a probe that is unmapped.
C9_Witness ==
    /\ map_pc = "returned"
    /\ Len(unmapped_probes) = 1
    /\ \E i \in 1..Len(high_quality_probes) :
         /\ PatternGroup(high_quality_probes[i]) = << >>
         /\ Cardinality({ j \in 1..Len(pav_sequences) :
                            StartsWith(high_quality_probes[i], pav_sequences[j]) }) = 2
         /\ GroupedCount(mapping_results, DOMAIN mapping_results,
                         high_quality_probes[i]) = 1

\* C10: after map_probes_to_pav every key of the grouping is a known region id.
C10_GroupKeysAreKnownRegions ==
    map_pc = "returned" => DOMAIN mapping_results \subseteq Range(pav_sequences)

\* C11: a probe id whose pattern-captured prefix is a known region id is in
\* the group of exactly that region and nowhere else, also when another known
\* region id is a literal prefix of the probe id: the pattern wins over the
\* prefix search.
C11_PatternWinsOverPrefix ==
    map_pc = "returned" =>
        \A i \in 1..Len(high_quality_probes) :
            LET p == high_quality_probes[i]
                g == PatternGroup(p)
            IN  g \in Range(pav_sequences) =>
                    /\ g \in DOMAIN mapping_results
                    /\ Occurrences(mapping_results[g], p) = 1
                    /\ \A k \in DOMAIN mapping_results \ {g} :
                           Occurrences(mapping_results[k], p) = 0
                    /\ Occurrences(unmapped_probes, p) = 0

\* The probe 1_q-1_u with the known regions 1_q and 1_q-1, the shorter one
\* first in the dict: it is in the group of 1_q-1.
C11_Witness ==
    /\ map_pc = "returned"
    /\ pav_sequences = << << "1", "_", "q" >>, << "1", "_", "q", "-", "1" >> >>
    /\ \E i \in 1..Len(high_quality_probes) :
         /\ high_quality_probes[i] = << "1", "_", "q", "-", "1", "_", "u" >>
         /\ PatternGroup(high_quality_probes[i]) = pav_sequences[2]
         /\ StartsWith(high_quality_probes[i], pav_sequences[1])
         /\ Occurrences(mapping_results[pav_sequences[2]], high_quality_probes[i]) = 1

\* C12: analyze_coverage reports for every source found = |source ids that
\* are in the universe|, not_found = total - found and found_ratio =
\* found / total * 100, and for a source without ids a found_ratio of 0,
\* computed without a division.
C12_PerSourceCounts ==
    cov_pc = "returned" =>
        /\ Len(stats.file_stats) = Len(cov_blast_results)
        /\ \A i \in 1..Len(cov_blast_results) :
              LET st == stats.file_stats[i]
                  src == cov_blast_results[i]
              IN  /\ st.total_probes = Cardinality(src)
                  /\ st.found_in_fasta = Cardinality({ x \in src : x \in cov_probes })
                  /\ st.not_found_in_fasta = st.total_probes - st.found_in_fasta
                  /\ st.not_found_in_fasta = Cardinality({ x \in src : x \notin cov_probes })
                  /\ IF src = {}
                     THEN st.found_ratio.num = 0
                     ELSE /\ st.found_ratio.den # 0
                          /\ st.found_ratio.num * st.total_probes
                               = 100 * st.found_in_fasta * st.found_ratio.den

\* A source without ids next to a source of which one id is in the universe
\* and one is not, the universe holding an id neither source names.
C12_Witness ==
    /\ cov_pc = "returned"
    /\ \E i, j \in 1..Len(cov_blast_results) :
         /\ cov_blast_results[i] = {}
         /\ stats.file_stats[i].found_ratio.num = 0
         /\ stats.file_stats[j].found_in_fasta = 1
         /\ stats.file_stats[j].not_found_in_fasta = 1
         /\ stats.file_stats[j].found_ratio.num = 50 * stats.file_stats[j].found_ratio.den
    /\ cov_probes \ UNION { cov_blast_results[k] : k \in 1..Len(cov_blast_results) } # {}

\* C13: the global coverage_ratio is 0 when the universe is empty, and exactly
\* 100 when the union of the sources' ids equals a non-empty universe.
C13_GlobalCoverageRatio ==
    cov_pc = "returned" =>
        /\ cov_probes = {} => stats.coverage_ratio.num = 0
        /\ ( /\ cov_probes # {}
             /\ UNION { cov_blast_results[k] : k \in 1..Len(cov_blast_results) } = cov_probes )
           => /\ stats.coverage_ratio.den # 0
              /\ stats.coverage_ratio.num = 100 * stats.coverage_ratio.den

\* Two sources that share an id and together name the whole universe.
C13_Witness ==
    /\ cov_pc = "returned"
    /\ Len(cov_blast_results) = 2
    /\ cov_blast_results[1] \cap cov_blast_results[2] # {}
    /\ cov_blast_results[1] # cov_blast_results[2]
    /\ cov_blast_results[1] \cup cov_blast_results[2] = cov_probes
    /\ stats.coverage_ratio.num = 100 * stats.coverage_ratio.den

\* An empty universe under sources that name ids.
C13_WitnessEmptyUniverse ==
    /\ cov_pc = "returned"
    /\ cov_probes = {}
    /\ stats.total_probes_in_blast > 0
    /\ stats.coverage_ratio.num = 0

\* The universe file cannot be read, or there are BLAST files and none of
\* them can be read.
LoadFailed ==
    \/ ~probes_file.readable
    \/ /\ Len(blast_files) > 0
       /\ \A i \in 1..Len(blast_files) : ~blast_files[i].readable

\* C14: when the sequence universe or the hit provider cannot be loaded at
\* all, the run does not get past the loading: the loaders do not return
\* normally and calculate_all_scores is not run.
C14_LoadFailureStopsRun ==
    LoadFailed => pc \notin {"start", "collect", "done"}

\* A hit with fewer than 12 columns or an unparsable pident, length or
\* mismatch field.
Malformed(h) ==
    h.ncols < 12 \/ ~h.pident.num \/ ~h.length.num \/ ~h.mismatch.num

\* C15: a malformed hit is dropped and leaves no trace: the record of a hit
\* list that ends in a malformed hit has the total_hit_count,
\* raw_non_specificity and perfect_match_count of the list without it.
C15_DroppedHitLeavesNoTrace ==
    ( /\ ret_prev.done /\ Returned
      /\ Len(ret_prev.out) = 1
      /\ Malformed(CallHits[Len(CallHits)]) )
    => /\ Rec.total_hits = ret_prev.out[1].total_hits
       /\ Rec.raw_non_specificity = ret_prev.out[1].raw_non_specificity
       /\ Rec.perfect_matches = ret_prev.out[1].perfect_matches

\* The positions of the hits counted in total_hit_count.
Retained(hits) ==
    { i \in 1..Len(hits) :
        /\ hits[i].ncols >= 12
        /\ hits[i].pident.num
        /\ hits[i].length.num
        /\ hits[i].pident.v = FullIdentity => hits[i].mismatch.num }

\* C16: matched_target_ids is the ascending, duplicate-free list of exactly
\* the target ids of the retained hits, and so is empty when total_hit_count
\* is 0.
C16_MatchedIdsOfRetainedHits ==
    Returned =>
        /\ Rec.matched_chromosomes
             = SortedSeq({ CallHits[i].chrom : i \in Retained(CallHits) })
        /\ Rec.total_hits = 0 => Rec.matched_chromosomes = << >>

\* C17: perfect_match_count is the number of retained hits with pident 100.0
\* and 0 mismatches, the retained hits being those total_hit_count counts, and
\* never exceeds total_hit_count.
C17_PerfectMatchCount ==
    Returned =>
        /\ Rec.total_hits = Cardinality(Retained(CallHits))
        /\ Rec.perfect_matches
             = Cardinality({ i \in Retained(CallHits) :
                               /\ CallHits[i].pident.v = FullIdentity
                               /\ CallHits[i].mismatch.v = 0 })
        /\ Rec.perfect_matches <= Rec.total_hits

\* A perfect match next to a retained hit of pident 100.0 with a mismatch and
\* a dropped hit of pident 100.0.
C17_Witness ==
    /\ Returned
    /\ Rec.perfect_matches = 1
    /\ Rec.total_hits = 2
    /\ Len(CallHits) = 3
    /\ \E i \in Retained(CallHits) :
         CallHits[i].pident.v = FullIdentity /\ CallHits[i].mismatch.v = 1
    /\ \E i \in 1..Len(CallHits) :
         /\ i \notin Retained(CallHits)
         /\ CallHits[i].pident = Num(FullIdentity)

RECURSIVE Concat(_, _)
Concat(chunks, k) ==
    IF k > Len(chunks) THEN << >> ELSE chunks[k] \o Concat(chunks, k + 1)

\* C18: the chunks are contiguous pieces of the Hit Store's pair list: all but
\* the last have exactly chunk_size pairs, the last has 1..chunk_size, none is
\* empty, their concatenation in index order is the pair list; an empty store
\* gives zero chunks and an empty result.
C18_ChunksPartitionStore ==
    pc \in {"collect", "done"} =>
        /\ \A k \in 1..(Len(batches) - 1) : Len(batches[k]) = chunk_size
        /\ Len(batches) > 0 => Len(batches[Len(batches)]) \in 1..chunk_size
        /\ \A k \in 1..Len(batches) : batches[k] # << >>
        /\ Concat(batches, 1) = blast_results
        /\ \A p \in 1..Len(blast_results) :
              Cardinality({ << k, q >> \in
                              { << k, q >> \in (1..Len(batches)) \X (1..MaxChunk) :
                                  q <= Len(batches[k]) } :
                              batches[k][q] = blast_results[p] }) = 1
        /\ blast_results = << >> =>
              /\ batches = << >>
              /\ pc = "done" => scores = << >>

\* Three pairs in chunks of two: a full chunk and a last chunk of one.
C18_Witness ==
    /\ pc = "done"
    /\ chunk_size = 2
    /\ Len(blast_results) = 3
    /\ Len(batches) = 2
    /\ Len(batches[1]) = 2
    /\ Len(batches[2]) = 1

\* The run on an empty Hit Store.
C18_WitnessEmptyStore ==
    /\ pc = "done"
    /\ blast_results = << >>
    /\ batches = << >>
    /\ scores = << >>

\* Position of probe id p in the order of appending.
ArrivalPos(p) == CHOOSE k \in 1..Len(arrival) : arrival[k] = p

\* C19: in the returned list two records of equal score are in the order in
\* which they were appended to self.scores.
C19_TiesInArrivalOrder ==
    pc = "done" =>
        \A i, j \in 1..Len(scores) :
            (i < j /\ scores[i].score = scores[j].score)
              => ArrivalPos(scores[i].probe_id) < ArrivalPos(scores[j].probe_id)

\* Two records of equal score whose chunks arrived against submission order,
\* with a record of another score appended between them.
C19_Witness ==
    /\ pc = "done"
    /\ Len(scores) = 3
    /\ \E i, j \in 1..Len(scores) :
         /\ i < j
         /\ scores[i].score = scores[j].score
         /\ scores[i].probe_id > scores[j].probe_id
         /\ ArrivalPos(scores[j].probe_id) - ArrivalPos(scores[i].probe_id) = 2

\* The chunks whose results were delivered.
Delivered == { k \in 1..Len(future) : future[k].state = "yielded" /\ ~future[k].exc }

\* C20 (as stated): one processed-count value is emitted after each chunk, the
\* values increase, and the last one is the length of the returned list.
C20_OneValuePerChunk ==
    pc = "done" =>
        /\ Len(progress) = Len(batches)
        /\ \A k \in 1..(Len(progress) - 1) : progress[k] < progress[k + 1]
        /\ progress # << >> => progress[Len(progress)] = Len(scores)

\* C20: one processed-count value is emitted after each chunk whose results
\* were delivered and none after a failed chunk; the values never decrease and
\* increase when every delivered chunk holds a record; the last value is the
\* number of records appended so far, which at the end is the length of the
\* returned list, and when no value was emitted the returned list is empty.
C20_ProgressCountsDelivered ==
    pc \in {"collect", "done"} =>
        /\ Len(progress) = Cardinality(Delivered)
        /\ \A k \in 1..(Len(progress) - 1) : progress[k] <= progress[k + 1]
        /\ (\A d \in Delivered : future[d].result # << >>)
              => \A k \in 1..(Len(progress) - 1) : progress[k] < progress[k + 1]
        /\ progress # << >> => progress[Len(progress)] = Len(arrival)
        /\ pc = "done" =>
              IF progress = << >> THEN scores = << >>
              ELSE progress[Len(progress)] = Len(scores)

\* Three chunks, the second of them failed, the third delivered before the
\* first: two values were emitted.
C20_Witness ==
    /\ pc = "done"
    /\ Len(batches) = 3
    /\ future[2].exc
    /\ Delivered = {1, 3}
    /\ progress = << 1, 2 >>
    /\ arrival = << blast_results[3].id, blast_results[1].id >>

\* C21: for every finite Hit Store calculate_all_scores terminates: it
\* eventually stays at its end with every submitted chunk yielded, with its
\* results or with its failure; the sort is applied only once every chunk was
\* yielded, and the list does not change after it.
C21_Terminates ==
    /\ <>[](pc = "done" /\ \A k \in 1..Len(future) : future[k].state = "yielded")
    /\ [](pc = "done" => \A k \in 1..Len(future) : future[k].state = "yielded")
    /\ [][pc = "done" => scores' = scores]_vars

\* The run has ended with more chunks than workers, one chunk failed and the
\* others delivered.
C21_Witness ==
    /\ pc = "done"
    /\ Len(batches) > max_workers
    /\ \E k \in 1..Len(future) : future[k].exc
    /\ Len(scores) > 0

\* C22: no step of calculate_all_scores, whatever chunks succeed or fail,
\* changes the sequence universe or the Hit Store.
C22_InputsUnchanged ==
    [][probes' = probes /\ blast_results' = blast_results]_vars

\* The run has ended on a store of three probes and a universe that knows two
\* of them, one chunk failed and one delivered.
C22_Witness ==
    /\ pc = "done"
    /\ Len(blast_results) = 3
    /\ Cardinality(DOMAIN probes) = 2
    /\ \E k \in 1..Len(future) : future[k].exc
    /\ \E k \in 1..Len(future) : ~future[k].exc /\ future[k].result # << >>

\* The positions of the known region ids that are literal prefixes of p.
PrefixHits(p) ==
    { j \in 1..Len(pav_sequences) :
        /\ Len(pav_sequences[j]) <= Len(p)
        /\ \A c \in 1..Len(pav_sequences[j]) : pav_sequences[j][c] = p[c] }

\* C23: a probe id on which the pattern fails is in the group of the first
\* known region id, in the order of the dict, that is a literal prefix of it,
\* and nowhere else; it is in the unmapped list if and only if no known region
\* id is a prefix of it.
C23_FallbackFirstPrefix ==
    map_pc = "returned" =>
        \A i \in 1..Len(high_quality_probes) :
            LET p == high_quality_probes[i]
                first == CHOOSE j \in PrefixHits(p) : \A k \in PrefixHits(p) : j <= k
            IN  PatternGroup(p) = << >> =>
                    /\ Occurrences(unmapped_probes, p) = (IF PrefixHits(p) = {} THEN 1 ELSE 0)
                    /\ PrefixHits(p) # {} =>
                          /\ pav_sequences[first] \in DOMAIN mapping_results
                          /\ Occurrences(mapping_results[pav_sequences[first]], p) = 1
                    /\ \A k \in DOMAIN mapping_results :
                          (PrefixHits(p) = {} \/ k # pav_sequences[first])
                            => Occurrences(mapping_results[k], p) = 0

\* The probe 1_q-1x_u with the known regions 1_q-1 and 1_q, the longer one
\* first in the dict: it is in the group of 1_q-1 and not in that of 1_q.
C23_Witness ==
    /\ map_pc = "returned"
    /\ pav_sequences = << << "1", "_", "q", "-", "1" >>, << "1", "_", "q" >> >>
    /\ \E i \in 1..Len(high_quality_probes) :
         /\ high_quality_probes[i] = << "1", "_", "q", "-", "1", "x", "_", "u" >>
         /\ PrefixHits(high_quality_probes[i]) = {1, 2}
         /\ Occurrences(mapping_results[pav_sequences[1]], high_quality_probes[i]) = 1
         /\ pav_sequences[2] \notin DOMAIN mapping_results

\* C24: map_probes_to_pav on an empty probe set takes no error path: it
\* returns, with an empty grouping and an empty unmapped list.
C24_EmptyInputReturns ==
    (Len(high_quality_probes) = 0 /\ map_pc \notin {"idle", "ready", "skipped"})
      => /\ map_pc = "returned"
         /\ mapping_results = << >>
         /\ unmapped_probes = << >>

\* The hit list of probe q in one file: its lines of at least 12 columns, in
\* line order; nothing when the file cannot be read.
FileHits(file, q) ==
    LET Of(l) == l.qid = q /\ l.qid # 0 /\ l.ncols >= 12
    IN  IF file.readable THEN SelectSeq(file.lines, Of) ELSE << >>

RECURSIVE FilesHits(_, _, _)
FilesHits(files, i, q) ==
    IF i > Len(files) THEN << >>
    ELSE FileHits(files[i], q) \o FilesHits(files, i + 1, q)

Loaded == pc \notin {"idle", "load_probes", "load_blast"}

\* C25: after load_blast_results the Hit Store's list of a probe id is the
\* concatenation, in file order, of the probe's hit lists of the files, each
\* in line order and nothing removed, and the keys are the probe ids with a
\* hit in at least one file, each once.
C25_StoreIsConcatenation ==
    Loaded =>
        /\ \A k \in 1..Len(blast_results) :
              /\ blast_results[k].id \in ProbeIds
              /\ blast_results[k].hits = FilesHits(blast_files, 1, blast_results[k].id)
              /\ \A j \in 1..Len(blast_results) :
                    blast_results[j].id = blast_results[k].id => j = k
        /\ \A q \in ProbeIds :
              FilesHits(blast_files, 1, q) # << >>
                => \E k \in 1..Len(blast_results) : blast_results[k].id = q

\* Two readable files that both hold the same line of one probe: the probe's
\* list holds the line twice, the hits of the first file before those of the
\* second.
C25_Witness ==
    /\ pc = "start"
    /\ Len(blast_files) = 2
    /\ blast_files[1].readable /\ blast_files[2].readable
    /\ blast_files[1] # blast_files[2]
    /\ \E k \in 1..Len(blast_results) :
         /\ Len(blast_results[k].hits) = 3
         /\ blast_results[k].hits[1] = blast_results[k].hits[2]
         /\ FileHits(blast_files[1], blast_results[k].id) = << blast_results[k].hits[1] >>

\* C27: every hit of the Hit Store has at least 12 columns and is stored under
\* its first column, so the scorer's own column-count check drops none of
\* them: the stored hits being parsable, each record counts all of its
\* probe's stored hits.
C27_StoredHitsHaveAllColumns ==
    Loaded =>
        /\ \A k \in 1..Len(blast_results) :
              \A j \in 1..Len(blast_results[k].hits) :
                  /\ blast_results[k].hits[j].ncols >= 12
                  /\ blast_results[k].hits[j].qid = blast_results[k].id
        /\ pc = "done" =>
              \A r \in 1..Len(scores) :
                  \A k \in 1..Len(blast_results) :
                      blast_results[k].id = scores[r].probe_id
                        => scores[r].total_hits = Len(blast_results[k].hits)

\* A file with a comment line and a line of 3 columns was loaded and its
\* probes scored: the short line's probe has no entry.
C27_Witness ==
    /\ pc = "done"
    /\ Len(blast_files) = 1
    /\ blast_files[1].readable
    /\ \E l \in 1..Len(blast_files[1].lines) :
         /\ blast_files[1].lines[l].ncols < 12
         /\ blast_files[1].lines[l].qid # 0
         /\ \A k \in 1..Len(blast_results) :
               blast_results[k].id # blast_files[1].lines[l].qid
    /\ Len(scores) = 2

\* The record of probe id q in self.scores.
ScoreOf(q) == (CHOOSE i \in 1..Len(scores) : scores[i].probe_id = q)

\* C26: in a run of the scorer the threshold applied to select the
\* high-quality probes is the configured score_threshold, the value the
\* mapping reports print: every probe selected as high-quality scores at least
\* that much.
C26_ThresholdIsConfigured ==
    extracted.done =>
        /\ extracted.score_threshold = SCORE_THRESHOLD
        /\ ~extracted.fallback =>
              \A k \in 1..Len(extracted.selected) :
                  scores[ScoreOf(extracted.selected[k])].score >= SCORE_THRESHOLD

\* The threshold extract_high_quality_probes was asked for, 60.0 when none
\* was given.
AskedThreshold == IF threshold.given THEN threshold.v ELSE DefaultThreshold

InUniverse == { i \in 1..Len(scores) : scores[i].in_fasta }

\* C30: extract_high_quality_probes selects only in-universe probes: exactly
\* the in-universe records with score >= threshold when there is one;
\* otherwise, when an in-universe record exists, exactly the first in-universe
\* record of maximum score, flagged as fallback; nothing only when no scored
\* probe is in the universe.
C30_SelectsInUniverseAboveThreshold ==
    extracted.done =>
        LET above == { i \in InUniverse : scores[i].score >= AskedThreshold }
            sel == { extracted.selected[k] : k \in 1..Len(extracted.selected) }
        IN  /\ sel \subseteq DOMAIN probes
            /\ above # {} =>
                  /\ sel = { scores[i].probe_id : i \in above }
                  /\ ~extracted.fallback
            /\ (above = {} /\ InUniverse # {}) =>
                  /\ extracted.fallback
                  /\ Len(extracted.selected) = 1
                  /\ \E i \in InUniverse :
                        /\ extracted.selected[1] = scores[i].probe_id
                        /\ \A j \in InUniverse : scores[j].score <= scores[i].score
                        /\ \A j \in InUniverse : j < i => scores[j].score < scores[i].score
            /\ sel = {} <=> InUniverse = {}

\* The records of the probes whose chunk did not fail, in the order of the Hit
\* Store: what the store, the universe and the failed chunks determine.
RECURSIVE Reference(_)
Reference(p) ==
    IF p > Len(blast_results) THEN << >>
    ELSE (IF ChunkOf(p) \in FailedChunks THEN << >>
          ELSE << ScoreProbe(probes, blast_results[p].id, blast_results[p].hits) >>)
         \o Reference(p + 1)

\* The scores of a list of records in non-increasing order.
RECURSIVE ScoresDescending(_)
ScoresDescending(records) ==
    IF records = << >> THEN << >>
    ELSE LET top == CHOOSE i \in 1..Len(records) :
                       \A j \in 1..Len(records) : records[j].score <= records[i].score
         IN  << records[top].score >>
             \o ScoresDescending([k \in 1..(Len(records) - 1) |->
                                    IF k < top THEN records[k] ELSE records[k + 1]])

\* C28: the returned list holds exactly the records that the Hit Store, the
\* universe and the set of failed chunks determine, each once, and its
\* sequence of score values is their scores in non-increasing order, under
\* every completion order and every worker count.
C28_ResultDeterminedByInputs ==
    pc = "done" =>
        LET ref == Reference(1)
        IN  /\ Len(scores) = Len(ref)
            /\ \A r \in 1..Len(ref) :
                  Cardinality({ i \in 1..Len(scores) : scores[i] = ref[r] }) = 1
            /\ [i \in 1..Len(scores) |-> scores[i].score] = ScoresDescending(ref)

\* Two workers, no failure, the last chunk of three arrived first, and two
\* records of equal score are returned against the order of the Hit Store.
C28_Witness ==
    /\ pc = "done"
    /\ max_workers = 2
    /\ Len(blast_results) = 3
    /\ FailedChunks = {}
    /\ arrival[1] = blast_results[3].id
    /\ \E i, j \in 1..Len(scores) :
         /\ i < j
         /\ scores[i].score = scores[j].score
         /\ scores[i].probe_id > scores[j].probe_id

\* C29: for every universe and every list of (probe_id, hits) pairs
\* calculate_probes_batch and static_calculate_probes_batch return the same
\* list of records, field for field and in the same order.
C29_SequentialEqualsStatic ==
    (ret.done /\ ret_seq.done) => ret_seq.out = ret.out

\* Both scorers were called on three hits, one of them too short, one dropped
\* for its mismatch field after its target id was collected.
C29_Witness ==
    /\ ret.done /\ ret_seq.done
    /\ Len(ret_seq.out) = 1
    /\ Len(CallHits) = 3
    /\ \E i \in 1..Len(CallHits) : CallHits[i].ncols < 12
    /\ \E i \in 1..Len(CallHits) :
         /\ CallHits[i].ncols >= 12
         /\ CallHits[i].pident = Num(FullIdentity)
         /\ ~CallHits[i].mismatch.num
    /\ ret_seq.out[1].total_hits = 1
    /\ Len(ret_seq.out[1].matched_chromosomes) = 2

====
